---- MODULE Spec2Model ----
(***************************************************************************)
(* State-machine model of src/app.py (Multilingual Audio Summarizer).      *)
(*                                                                         *)
(* The two MongoDB collections are sequences of documents in insertion     *)
(* order (the order a collection scan returns them in).  Every browser tab *)
(* is a client with its own st.session_state.  A widget event runs the     *)
(* whole script once; a handler that ends in st.rerun() includes the run   *)
(* that follows it.  Handlers that only talk to the database are one       *)
(* action each.  The Process File handler blocks on external services, so  *)
(* it is one action per stage, and Create Account hashes the password      *)
(* between its lookup and its insert, so it is two actions: the requests   *)
(* of other clients interleave at these points.                            *)
(***************************************************************************)
EXTENDS Integers, Sequences, FiniteSets, TLC

VARIABLES
    users,              \* users_collection: sequence of account documents
    last_password,      \* history: the password stored last for each user id
    sessions,           \* sessions_collection: sequence of session documents
    next_id,            \* the next _id the database hands out
    user_id,            \* st.session_state.user_id, per client
    selected_session,   \* st.session_state.selected_session, per client
    rename_mode,        \* st.session_state.rename_mode, per client
    file_uploader_key,  \* st.session_state.file_uploader_key, per client
    notes,              \* st.session_state.notes, per client
    pc,                 \* where the client's running script is
    run,                \* the locals of the client's Process File run
    tmpfiles,           \* scratch files of the client's run in flight
    orphans,            \* number of scratch files left on disk by runs that ended
    pending,            \* the Create Account request between lookup and insert
    smtp,               \* the last message handed to the mail transport
    message,            \* the st.success / st.error text on the client's page
    translated          \* what the Translate tab of the client's page shows

storeVars  == <<users, last_password, sessions, next_id>>
uiVars     == <<user_id, selected_session, rename_mode, file_uploader_key, notes>>
pageVars   == <<message, translated>>
runVars    == <<pc, run, tmpfiles, orphans>>
vars       == <<users, last_password, sessions, next_id, user_id, selected_session, rename_mode,
                file_uploader_key, notes, pc, run, tmpfiles, orphans, pending, smtp,
                message, translated>>

----------------------------------------------------------------------------
\* Bounds of the model.
MaxDocs == 3
MaxKey == 2
MaxOrphans == 1
MaxAccounts == 2

\* Inputs.
Clients   == {"tab1", "tab2"}
UserIds   == {"alice", "bob"}
Passwords == {"secret123", "wrong"}
Salts     == {"saltA", "saltB"}
Files     == { [name |-> "talk.mp3", type |-> "audio"],
               [name |-> "clip.mp4", type |-> "video"] }
Texts     == {"hello world"}
Summaries == {"a greeting"}

\* Python's None, and a key that a document does not have.
None   == "<None>"
Absent == "<absent>"

\* nothing is shown in the Translate tab
NoTranslation == [lang |-> None, text |-> None]

\* Python truthiness of a string-or-None value.
Truthy(x) == x # None /\ x # ""

----------------------------------------------------------------------------
\* The language options.  A dict is the sequence of its items in insertion
\* order; a locale code is the sequence of its parts between dashes.
\* the language table with one code given to two names
languages_shared_code ==
    << [key |-> "Telugu",     value |-> <<"te", "IN">>],
       [key |-> "Hindi",      value |-> <<"hi", "IN">>],
       [key |-> "English",    value |-> <<"en", "US">>],
       [key |-> "Spanish",    value |-> <<"es">>],
       [key |-> "French",     value |-> <<"fr">>],
       [key |-> "German",     value |-> <<"de">>],
       [key |-> "Portuguese", value |-> <<"es">>],
       [key |-> "Italian",    value |-> <<"it">>],
       [key |-> "Japanese",   value |-> <<"ja">>],
       [key |-> "Chinese",    value |-> <<"zh">>] >>

languages ==
    << [key |-> "Telugu",     value |-> <<"te", "IN">>],
       [key |-> "Hindi",      value |-> <<"hi", "IN">>],
       [key |-> "English",    value |-> <<"en", "US">>],
       [key |-> "Spanish",    value |-> <<"es">>],
       [key |-> "French",     value |-> <<"fr">>],
       [key |-> "German",     value |-> <<"de">>],
       [key |-> "Portuguese", value |-> <<"pt">>],
       [key |-> "Italian",    value |-> <<"it">>],
       [key |-> "Japanese",   value |-> <<"ja">>],
       [key |-> "Chinese",    value |-> <<"zh">>] >>

\* list(d.keys())
Keys(d) == {d[i].key : i \in DOMAIN d}

\* d.get(k, default): the item stored last under k
Get(d, k, default) ==
    LET hits == {i \in DOMAIN d : d[i].key = k}
    IN  IF hits = {} THEN default
        ELSE d[CHOOSE i \in hits : \A j \in hits : j <= i].value

\* d[k] for a key the dict has
Lookup(d, k) == Get(d, k, None)

\* {v: k for k, v in languages.items()}
Inverted(d) == [i \in DOMAIN d |-> [key |-> d[i].value, value |-> d[i].key]]

\* the option a selectbox starts with
DefaultLanguage == languages[1].key

\* lang_name in summarize_text: lang_map.get(lang_code, "English")
lang_name(lang_code) == Get(Inverted(languages), lang_code, "English")

----------------------------------------------------------------------------
\* Documents of sessions_collection.
Doc(id, u, n, t, s, f) ==
    [_id |-> id, user_id |-> u, session_name |-> n,
     transcription |-> t, summary |-> s, filename |-> f]

\* {} as the default of dict.get
EmptyData == Doc(0, Absent, Absent, Absent, Absent, Absent)

\* "transcription" in session_data
HasTranscription(d) == d.transcription # Absent

\* the filter without its user_id field
Matches_any_user(d, u, n) == d.session_name = n

\* the filter {"session_name": n, "user_id": u}
Matches(d, u, n) == d.user_id = u /\ d.session_name = n

\* index of the first document matching {"session_name": n, "user_id": u}, or 0
FirstMatch(coll, u, n) ==
    LET hits == {i \in DOMAIN coll : Matches(coll[i], u, n)}
    IN  IF hits = {} THEN 0 ELSE CHOOSE i \in hits : \A j \in hits : i <= j

RemoveAt(coll, i) == SubSeq(coll, 1, i - 1) \o SubSeq(coll, i + 1, Len(coll))

\* sessions_collection.find({"user_id": u})
find_user(coll, u) == SelectSeq(coll, LAMBDA d : d.user_id = u)

\* get_sessions with the first document of a name winning instead of the last
get_sessions_first_wins(coll, u) ==
    LET ds    == find_user(coll, u)
        names == {ds[i].session_name : i \in DOMAIN ds}
        first(n) == CHOOSE i \in DOMAIN ds :
                       /\ ds[i].session_name = n
                       /\ \A j \in DOMAIN ds : ds[j].session_name = n => i <= j
    IN  [n \in names |-> ds[first(n)]]

\* get_sessions: a dict keyed by session_name; a later document with the same
\* name replaces an earlier one.
get_sessions(coll, u) ==
    LET ds    == find_user(coll, u)
        names == {ds[i].session_name : i \in DOMAIN ds}
        last(n) == CHOOSE i \in DOMAIN ds :
                      /\ ds[i].session_name = n
                      /\ \A j \in DOMAIN ds : ds[j].session_name = n => j <= i
    IN  [n \in names |-> ds[last(n)]]

\* f"Session {new_session_number}"
SessionName(k) == "Session " \o ToString(k)

\* sessions_collection.delete_one({"session_name": n, "user_id": u})
delete_one(coll, u, n) ==
    LET i == FirstMatch(coll, u, n)
    IN  IF i = 0 THEN coll ELSE RemoveAt(coll, i)

\* sessions_collection.update_one(filter, {"$set": {"session_name": new}})
rename_one(coll, u, n, new) ==
    LET i == FirstMatch(coll, u, n)
    IN  IF i = 0 THEN coll ELSE [coll EXCEPT ![i].session_name = new]

\* SetResult without the summary field
SetResult_no_summary(d, t, s, f) == [d EXCEPT !.transcription = t, !.filename = f]

\* the "$set" document of the result write
SetResult(d, t, s, f) == [d EXCEPT !.transcription = t, !.summary = s, !.filename = f]

\* whether the result write finds no document and has to upsert
NeedsUpsert(coll, u, n) == FirstMatch(coll, u, n) = 0

\* sessions_collection.update_one(filter, {"$set": {...}}, upsert=True)
upsert_result(coll, id, u, n, t, s, f) ==
    LET i == FirstMatch(coll, u, n)
    IN  IF i = 0
        THEN Append(coll, SetResult(Doc(id, u, n, Absent, Absent, Absent), t, s, f))
        ELSE [coll EXCEPT ![i] = SetResult(coll[i], t, s, f)]

----------------------------------------------------------------------------
\* Credentials.  bcrypt's hash carries its salt; checkpw re-derives the hash
\* with the stored salt and compares.
hashpw(password, salt) == [salt |-> salt, digest |-> <<salt, password>>]

check_password(password, hashed) == hashpw(password, hashed.salt) = hashed

\* users_collection.find_one({"user_id": u}): index of the first match, or 0
find_one_user(coll, u) ==
    LET hits == {i \in DOMAIN coll : coll[i].user_id = u}
    IN  IF hits = {} THEN 0 ELSE CHOOSE i \in hits : \A j \in hits : i <= j

----------------------------------------------------------------------------
\* The script's view of one client.
LoggedIn(c) == Truthy(user_id[c])

\* session_data = st.session_state.sessions.get(session_name, {}), on the
\* dict that line 290 has just reloaded
SessionData(coll, u, selected) ==
    LET d == get_sessions(coll, u)
    IN  IF selected \in DOMAIN d THEN d[selected] ELSE EmptyData

session_data(coll, c) == SessionData(coll, user_id[c], selected_session[c])

\* the main area is drawn and offers the uploader
UploaderShown(c) ==
    /\ LoggedIn(c)
    /\ Truthy(selected_session[c])
    /\ ~HasTranscription(session_data(sessions, c))

\* the tabs are drawn: "transcription" in session_data
TabsShown(c) ==
    /\ LoggedIn(c)
    /\ Truthy(selected_session[c])
    /\ HasTranscription(session_data(sessions, c))

\* st.session_state.get("notes", "")
NotesText(c) == IF notes[c] = Absent THEN "" ELSE notes[c]

\* line 401, in the run that ends the handler: the notes are stored again
\* whenever the page that is drawn has the tabs
RenderNotes(c) ==
    notes' = [notes EXCEPT ![c] = IF TabsShown(c)' THEN NotesText(c) ELSE @]

NoRun == [session_name |-> None, target |-> 0, filename |-> None, type |-> None,
          selected_language |-> None, language_code |-> <<>>, lang_name |-> None,
          wav_file_path |-> None, transcribed_text |-> None,
          summ |-> "none", summary |-> None]

Idle(c) == pc[c] = "idle"

\* st.session_state.file_uploader_key += 1
BumpKey(c) == file_uploader_key' = [file_uploader_key EXCEPT ![c] = @ + 1]

\* the model stops a client's counter at MaxKey
CanBump(c) == file_uploader_key[c] < MaxKey

----------------------------------------------------------------------------
\* Sidebar - Account Management

Logout(c) ==
    /\ Idle(c) /\ LoggedIn(c) /\ CanBump(c)
    /\ user_id' = [user_id EXCEPT ![c] = None]
    /\ selected_session' = [selected_session EXCEPT ![c] = None]
    /\ BumpKey(c)
    /\ message' = [message EXCEPT ![c] = ""]
    /\ translated' = [translated EXCEPT ![c] = NoTranslation]
    /\ UNCHANGED <<storeVars, rename_mode, notes, runVars, pending, smtp>>

\* the document Start New Session inserts
NewSessionDoc(coll, id, u) ==
    Doc(id, u, SessionName(Len(find_user(coll, u)) + 1), Absent, Absent, Absent)

StartNewSession(c) ==
    /\ Idle(c) /\ LoggedIn(c) /\ CanBump(c)
    /\ next_id <= MaxDocs
    /\ LET d == NewSessionDoc(sessions, next_id, user_id[c])
       IN  /\ sessions' = Append(sessions, d)
           /\ selected_session' = [selected_session EXCEPT ![c] = d.session_name]
    /\ next_id' = next_id + 1
    /\ BumpKey(c)
    /\ message' = [message EXCEPT ![c] = ""]
    /\ translated' = [translated EXCEPT ![c] = NoTranslation]
    /\ UNCHANGED <<users, last_password, user_id, rename_mode, runVars, pending, smtp>>
    /\ RenderNotes(c)

\* user and check_password(password, user["password"])
Authenticates(coll, u, p) ==
    LET i == find_one_user(coll, u)
    IN  i # 0 /\ check_password(p, coll[i].password)

LoginOk(c, u, p) ==
    /\ Idle(c) /\ ~LoggedIn(c)
    /\ Authenticates(users, u, p)
    /\ user_id' = [user_id EXCEPT ![c] = u]
    /\ selected_session' = [selected_session EXCEPT ![c] = None]
    /\ message' = [message EXCEPT ![c] = ""]
    /\ translated' = [translated EXCEPT ![c] = NoTranslation]
    /\ UNCHANGED <<storeVars, rename_mode, file_uploader_key, notes,
                   runVars, pending, smtp>>

LoginFail(c, u, p) ==
    /\ Idle(c) /\ ~LoggedIn(c)
    /\ ~Authenticates(users, u, p)
    /\ message' = [message EXCEPT ![c] = "Invalid credentials!"]
    /\ translated' = [translated EXCEPT ![c] = NoTranslation]
    /\ UNCHANGED <<storeVars, uiVars, runVars, pending, smtp>>

\* Create Account, up to the lookup; the insert follows once the password is hashed
CreateAccountLookup(c, u, p, confirm) ==
    /\ Idle(c) /\ ~LoggedIn(c)
    /\ Len(users) + Cardinality({d \in Clients : pc[d] = "insert"}) < MaxAccounts
    /\ IF p # confirm
       THEN /\ message' = [message EXCEPT ![c] = "Passwords do not match!"]
            /\ UNCHANGED <<pc, pending>>
       ELSE IF find_one_user(users, u) # 0
       THEN /\ message' = [message EXCEPT ![c] = "User ID already exists!"]
            /\ UNCHANGED <<pc, pending>>
       ELSE /\ pc' = [pc EXCEPT ![c] = "insert"]
            /\ pending' = [pending EXCEPT ![c] = [user_id |-> u, password |-> p]]
            /\ message' = [message EXCEPT ![c] = ""]
    /\ translated' = [translated EXCEPT ![c] = NoTranslation]
    /\ UNCHANGED <<storeVars, uiVars, run, tmpfiles, orphans, smtp>>

NoPending == [user_id |-> None, password |-> None]

CreateAccountInsert(c) ==
    /\ pc[c] = "insert"
    /\ \E salt \in Salts :
          users' = Append(users, [user_id  |-> pending[c].user_id,
                                  password |-> hashpw(pending[c].password, salt)])
    /\ last_password' = [last_password EXCEPT ![pending[c].user_id] = pending[c].password]
    /\ pc' = [pc EXCEPT ![c] = "idle"]
    /\ pending' = [pending EXCEPT ![c] = NoPending]
    /\ message' = [message EXCEPT ![c] = "Account created!"]
    /\ translated' = [translated EXCEPT ![c] = NoTranslation]
    /\ UNCHANGED <<sessions, next_id, uiVars, run, tmpfiles, orphans, smtp>>

ResetPassword(c, u, p, confirm) ==
    /\ Idle(c) /\ ~LoggedIn(c)
    /\ LET i == find_one_user(users, u)
       IN  IF i = 0
           THEN /\ message' = [message EXCEPT ![c] = "User ID not found!"]
                /\ UNCHANGED <<users, last_password>>
           ELSE IF p # confirm
           THEN /\ message' = [message EXCEPT ![c] = "Passwords do not match!"]
                /\ UNCHANGED <<users, last_password>>
           ELSE /\ \E salt \in Salts :
                      users' = [users EXCEPT ![i].password = hashpw(p, salt)]
                /\ last_password' = [last_password EXCEPT ![u] = p]
                /\ message' = [message EXCEPT ![c] = "Password reset successfully!"]
    /\ translated' = [translated EXCEPT ![c] = NoTranslation]
    /\ UNCHANGED <<sessions, next_id, uiVars, runVars, pending, smtp>>

----------------------------------------------------------------------------
\* Sidebar - Session Management.
\*
\* st.session_state.sessions is reloaded (line 290) in every run of a logged-in
\* client before the script reads it, so what a run reads is this reload.  A
\* click on a session's button acts when the run it starts draws the button.
Reloaded(c) == get_sessions(sessions, user_id[c])

\* the names a session button can carry
SessionNames == {SessionName(k) : k \in 1..MaxDocs} \cup {"Session 2"}

ButtonDrawn(c, n) == n \in DOMAIN Reloaded(c)

SelectSession(c, n) ==
    /\ Idle(c) /\ LoggedIn(c) /\ ButtonDrawn(c, n)
    /\ IF selected_session[c] # n
       THEN /\ CanBump(c)
            /\ selected_session' = [selected_session EXCEPT ![c] = n]
            /\ BumpKey(c)
       ELSE UNCHANGED <<selected_session, file_uploader_key>>
    /\ message' = [message EXCEPT ![c] = ""]
    /\ translated' = [translated EXCEPT ![c] = NoTranslation]
    /\ UNCHANGED <<storeVars, user_id, rename_mode, runVars, pending, smtp>>
    /\ RenderNotes(c)

RenameClick(c, n) ==
    /\ Idle(c) /\ LoggedIn(c) /\ ButtonDrawn(c, n)
    /\ rename_mode' = [rename_mode EXCEPT ![c] = n]
    /\ message' = [message EXCEPT ![c] = ""]
    /\ translated' = [translated EXCEPT ![c] = NoTranslation]
    /\ UNCHANGED <<storeVars, user_id, selected_session, file_uploader_key,
                   runVars, pending, smtp>>
    /\ RenderNotes(c)

\* the selection that forgets nothing when a session is deleted
AfterDelete_keeps(selected, n) == selected

\* if st.session_state.selected_session == session_name: ... = None
AfterDelete(selected, n) == IF selected = n THEN None ELSE selected

DeleteSession(c, n) ==
    /\ Idle(c) /\ LoggedIn(c) /\ ButtonDrawn(c, n) /\ CanBump(c)
    /\ sessions' = delete_one(sessions, user_id[c], n)
    /\ selected_session' = [selected_session EXCEPT ![c] = AfterDelete(@, n)]
    /\ BumpKey(c)
    /\ message' = [message EXCEPT ![c] = ""]
    /\ translated' = [translated EXCEPT ![c] = NoTranslation]
    /\ UNCHANGED <<users, last_password, next_id, user_id, rename_mode, runVars, pending, smtp>>
    /\ RenderNotes(c)

\* names typed into the rename box, besides the name it is prefilled with
NewNames == {"Session 2"}

SaveName(c, new_name) ==
    /\ Idle(c) /\ LoggedIn(c) /\ Truthy(rename_mode[c]) /\ CanBump(c)
    /\ sessions' = rename_one(sessions, user_id[c], rename_mode[c], new_name)
    /\ selected_session' = [selected_session EXCEPT
                                ![c] = IF @ = rename_mode[c] THEN new_name ELSE @]
    /\ rename_mode' = [rename_mode EXCEPT ![c] = None]
    /\ BumpKey(c)
    /\ message' = [message EXCEPT ![c] = ""]
    /\ translated' = [translated EXCEPT ![c] = NoTranslation]
    /\ UNCHANGED <<users, last_password, next_id, user_id, runVars, pending, smtp>>
    /\ RenderNotes(c)

----------------------------------------------------------------------------
\* Main Area - upload and the Process File pipeline

\* a file is in the uploader and Process File is clicked: the locals the run
\* keeps (session_name, language_code, filename, file_type)
ProcessFile(c, f, selected_language) ==
    /\ Idle(c) /\ UploaderShown(c)
    /\ CanBump(c)
    /\ run' = [run EXCEPT ![c] = [NoRun EXCEPT !.session_name = selected_session[c],
                                               !.target = session_data(sessions, c)._id,
                                               !.selected_language = selected_language,
                                               !.language_code =
                                                   Lookup(languages, selected_language),
                                               !.filename = f.name,
                                               !.type = f.type]]
    /\ pc' = [pc EXCEPT ![c] = "normalize"]
    /\ message' = [message EXCEPT ![c] = ""]
    /\ translated' = [translated EXCEPT ![c] = NoTranslation]
    /\ UNCHANGED <<storeVars, user_id, selected_session, rename_mode, file_uploader_key,
                   notes, tmpfiles, orphans, pending, smtp>>

\* what the external services answer
NormalizeOutcomes  == {"ok", "error", "no audio track"}
TranscribeOutcomes == {"ok", "UnknownValueError", "RequestError"}
SummarizeOutcomes  == {"ok", "error"}

\* the st.error text of a failed stage
NormalizeMessage(type, outcome) ==
    CASE outcome = "ok"             -> ""
      [] outcome = "error"          -> IF type = "video" THEN "Video processing error"
                                                         ELSE "Error converting audio"
      [] outcome = "no audio track" -> "Video has no audio track."

TranscribeMessage(outcome) ==
    CASE outcome = "ok"                -> ""
      [] outcome = "UnknownValueError" -> "Could not understand the audio."
      [] outcome = "RequestError"      -> "Transcription error"

SummarizeMessage(outcome) == IF outcome = "ok" THEN "" ELSE "Summary generation failed"

WavPath == "tmp.wav"
Placeholder == "Summary unavailable"

\* convert_to_wav / extract_audio_from_video: the path of the WAV, or None
normalize_result(outcome) == IF outcome = "ok" THEN WavPath ELSE None

\* transcribe_audio: the recognised text, or None
transcribe_audio(outcome, text) == IF outcome = "ok" THEN text ELSE None

\* summarize_text without the placeholder: a failed call returns None
summarize_text_none(outcome, response) == IF outcome = "ok" THEN response ELSE None

\* summarize_text: the model's answer, or the placeholder when the call raises
summarize_text(outcome, response) == IF outcome = "ok" THEN response ELSE Placeholder

\* if wav_file_path:
AfterNormalize(wav_file_path) == IF Truthy(wav_file_path) THEN "transcribe" ELSE "idle"

\* AfterTranscribe without the test of transcribed_text
AfterTranscribe_always(transcribed_text) == "summarize"

\* if transcribed_text:
AfterTranscribe(transcribed_text) == IF Truthy(transcribed_text) THEN "summarize" ELSE "idle"

\* the run's locals after a stage; a run that stops has none
Continue(c, stage, r) == [run EXCEPT ![c] = IF stage = "idle" THEN NoRun ELSE r]

Normalize(c, outcome) ==
    /\ pc[c] = "normalize"
    /\ outcome = "no audio track" => run[c].type = "video"
    /\ LET path  == normalize_result(outcome)
           stage == AfterNormalize(path)
       IN  /\ tmpfiles' = [tmpfiles EXCEPT ![c] = IF Truthy(path) THEN {"wav"} ELSE {}]
           /\ run' = Continue(c, stage, [run[c] EXCEPT !.wav_file_path = path])
           /\ pc' = [pc EXCEPT ![c] = stage]
    /\ message' = [message EXCEPT ![c] = NormalizeMessage(run[c].type, outcome)]
    /\ translated' = [translated EXCEPT ![c] = NoTranslation]
    /\ UNCHANGED <<storeVars, uiVars, orphans, pending, smtp>>

Transcribe(c, outcome, heard) ==
    /\ pc[c] = "transcribe"
    /\ LET text  == transcribe_audio(outcome, heard)
           stage == AfterTranscribe(text)
       IN  /\ tmpfiles' = [tmpfiles EXCEPT ![c] = @ \ {"wav"}]
           /\ run' = Continue(c, stage, [run[c] EXCEPT !.transcribed_text = text])
           /\ pc' = [pc EXCEPT ![c] = stage]
    /\ message' = [message EXCEPT ![c] = TranscribeMessage(outcome)]
    /\ translated' = [translated EXCEPT ![c] = NoTranslation]
    /\ UNCHANGED <<storeVars, uiVars, orphans, pending, smtp>>

Summarize(c, outcome, response) ==
    /\ pc[c] = "summarize"
    /\ run' = [run EXCEPT ![c].summ = outcome,
                          ![c].lang_name = lang_name(run[c].language_code),
                          ![c].summary = summarize_text(outcome, response)]
    /\ pc' = [pc EXCEPT ![c] = "write"]
    /\ message' = [message EXCEPT ![c] = SummarizeMessage(outcome)]
    /\ translated' = [translated EXCEPT ![c] = NoTranslation]
    /\ UNCHANGED <<storeVars, uiVars, tmpfiles, orphans, pending, smtp>>

\* the result write, the reload and the rerun
WriteResult(c) ==
    /\ pc[c] = "write"
    /\ NeedsUpsert(sessions, user_id[c], run[c].session_name) => next_id <= MaxDocs
    /\ sessions' = upsert_result(sessions, next_id, user_id[c], run[c].session_name,
                                  run[c].transcribed_text, run[c].summary, run[c].filename)
    /\ next_id' = IF NeedsUpsert(sessions, user_id[c], run[c].session_name)
                  THEN next_id + 1 ELSE next_id
    /\ BumpKey(c)
    /\ run' = [run EXCEPT ![c] = NoRun]
    /\ pc' = [pc EXCEPT ![c] = "idle"]
    /\ message' = [message EXCEPT ![c] = ""]
    /\ translated' = [translated EXCEPT ![c] = NoTranslation]
    /\ UNCHANGED <<users, last_password, user_id, selected_session, rename_mode, tmpfiles, orphans,
                   pending, smtp>>
    /\ RenderNotes(c)

\* the run is at a Streamlit call: the st.write / st.audio / st.video calls
\* before a stage, or the st.error of a failed summarization
AtStreamlitCall(c) ==
    \/ pc[c] \in {"normalize", "transcribe"}
    \/ pc[c] = "write" /\ run[c].summ = "error"

\* a widget event while the run is at a Streamlit call: the run is dropped
\* there, and the script never reaches the code that removes the WAV
Abandon(c) ==
    /\ AtStreamlitCall(c)
    /\ orphans + Cardinality(tmpfiles[c]) <= MaxOrphans
    /\ orphans' = orphans + Cardinality(tmpfiles[c])
    /\ tmpfiles' = [tmpfiles EXCEPT ![c] = {}]
    /\ pc' = [pc EXCEPT ![c] = "idle"]
    /\ run' = [run EXCEPT ![c] = NoRun]
    /\ message' = [message EXCEPT ![c] = ""]
    /\ translated' = [translated EXCEPT ![c] = NoTranslation]
    /\ UNCHANGED <<storeVars, uiVars, pending, smtp>>

----------------------------------------------------------------------------
\* Translate tab of a populated session

TranslateOutcomes == {"ok", "error"}

\* what the translation engine answers for a text and a destination language
EngineText(dest, text) == dest \o ": " \o text

\* translate_summary without the fallback: a failed call returns None
translate_summary_none(outcome, summary_text, target_lang) ==
    IF outcome = "ok" THEN EngineText(target_lang[1], summary_text) ELSE None

\* translate_summary: the engine's text for dest = target_lang.split('-')[0],
\* or the input when the engine raises
translate_summary(outcome, summary_text, target_lang) ==
    IF outcome = "ok" THEN EngineText(target_lang[1], summary_text) ELSE summary_text

TranslateMessage(outcome) == IF outcome = "ok" THEN "" ELSE "Translation error"

\* the Translate button
TranslateClick(c, additional_lang, outcome) ==
    /\ Idle(c)
    /\ LoggedIn(c)
    /\ Truthy(selected_session[c])
    /\ HasTranscription(session_data(sessions, c))
    /\ notes' = [notes EXCEPT ![c] = IF @ = Absent THEN "" ELSE @]
    /\ translated' = [translated EXCEPT ![c] =
            [lang |-> additional_lang,
             text |-> translate_summary(outcome, session_data(sessions, c).summary,
                                        Lookup(languages, additional_lang))]]
    /\ message' = [message EXCEPT ![c] = TranslateMessage(outcome)]
    /\ UNCHANGED <<storeVars, user_id, selected_session, rename_mode, file_uploader_key,
                   runVars, pending, smtp>>

----------------------------------------------------------------------------
\* Email and Notes tabs of a populated session

MaxAddrLen == 5

\* what is typed into the recipient box: strings over these characters
Chars == {"a", "@", "."}
Addresses == UNION {[1..n -> Chars] : n \in 0..MaxAddrLen}

NotesTexts == {"my notes"}

\* re.match(r"[^@]+@[^@]+\.[^@]+", user_email): a match that starts at the
\* first character and may end before the last one
EmailPattern(s) ==
    \E i \in 1..Len(s) : \E k \in (i + 3)..(Len(s) - 1) :
        /\ \A j \in 1..i : s[j] # "@"
        /\ s[i + 1] = "@"
        /\ \A j \in (i + 2)..(k - 1) : s[j] # "@"
        /\ s[k] = "."
        /\ s[k + 1] # "@"

NoMail == [subject |-> None, to |-> <<>>, body |-> None]

\* server.sendmail(EMAIL_ADDRESS, user_email, msg.as_string())
sendmail(subject, to, body) == [subject |-> subject, to |-> to, body |-> body]

\* the st.success / st.error text after the transport has answered
TransportMessage(delivered) ==
    IF delivered THEN "Email sent successfully!" ELSE "Email failed"

\* the text area of the Notes tab is edited
WriteNotes(c, text) ==
    /\ Idle(c) /\ TabsShown(c)
    /\ notes' = [notes EXCEPT ![c] = text]
    /\ message' = [message EXCEPT ![c] = ""]
    /\ translated' = [translated EXCEPT ![c] = NoTranslation]
    /\ UNCHANGED <<storeVars, user_id, selected_session, rename_mode, file_uploader_key,
                   runVars, pending, smtp>>

\* Send Email on the Email tab: send_email(user_email, session_data["summary"])
SendEmail(c, user_email, delivered) ==
    /\ Idle(c) /\ TabsShown(c)
    /\ notes' = [notes EXCEPT ![c] = NotesText(c)]
    /\ IF ~EmailPattern(user_email)
       THEN /\ message' = [message EXCEPT ![c] = "Invalid email address."]
            /\ UNCHANGED smtp
       ELSE /\ smtp' = sendmail("Your Audio Summary", user_email,
                                session_data(sessions, c).summary)
            /\ message' = [message EXCEPT ![c] = TransportMessage(delivered)]
    /\ translated' = [translated EXCEPT ![c] = NoTranslation]
    /\ UNCHANGED <<storeVars, user_id, selected_session, rename_mode, file_uploader_key,
                   runVars, pending>>

\* Send Email on the Notes tab: send_notes_email(user_email, st.session_state.notes)
SendNotesEmail(c, user_email, delivered) ==
    /\ Idle(c) /\ TabsShown(c)
    /\ notes' = [notes EXCEPT ![c] = NotesText(c)]
    /\ smtp' = sendmail("Your Notes regarding Audio Summary", user_email, NotesText(c))
    /\ message' = [message EXCEPT ![c] = TransportMessage(delivered)]
    /\ translated' = [translated EXCEPT ![c] = NoTranslation]
    /\ UNCHANGED <<storeVars, user_id, selected_session, rename_mode, file_uploader_key,
                   runVars, pending>>

----------------------------------------------------------------------------

Init ==
    /\ users = << [user_id |-> "alice", password |-> hashpw("secret123", "saltA")],
                  [user_id |-> "bob",   password |-> hashpw("secret123", "saltB")] >>
    /\ last_password = [u \in UserIds |-> "secret123"]
    /\ sessions = <<>>
    /\ next_id = 1
    /\ user_id = [c \in Clients |-> None]
    /\ selected_session = [c \in Clients |-> None]
    /\ rename_mode = [c \in Clients |-> None]
    /\ file_uploader_key = [c \in Clients |-> 0]
    /\ notes = [c \in Clients |-> Absent]
    /\ pc = [c \in Clients |-> "idle"]
    /\ run = [c \in Clients |-> NoRun]
    /\ tmpfiles = [c \in Clients |-> {}]
    /\ orphans = 0
    /\ pending = [c \in Clients |-> NoPending]
    /\ smtp = NoMail
    /\ message = [c \in Clients |-> ""]
    /\ translated = [c \in Clients |-> NoTranslation]

\* The handlers of the session list and the pipeline, for every user.
Next ==
    \E c \in Clients :
        \/ Logout(c)
        \/ StartNewSession(c)
        \/ \E u \in UserIds, p \in Passwords : LoginOk(c, u, p)
        \/ \E n \in SessionNames : SelectSession(c, n)
        \/ \E n \in SessionNames : RenameClick(c, n)
        \/ \E n \in SessionNames : DeleteSession(c, n)
        \/ \E new \in NewNames : SaveName(c, new)
        \/ SaveName(c, rename_mode[c])
        \/ \E f \in Files : ProcessFile(c, f, DefaultLanguage)
        \/ \E o \in NormalizeOutcomes : Normalize(c, o)
        \/ \E o \in TranscribeOutcomes, t \in Texts : Transcribe(c, o, t)
        \/ \E o \in SummarizeOutcomes, t \in Summaries : Summarize(c, o, t)
        \/ WriteResult(c)
        \/ Abandon(c)

Spec == Init /\ [][Next]_vars

\* One client whose pipeline succeeds at every stage on an audio file, and the
\* Email and Notes tabs of the populated session.
NextEmail ==
    \/ \E p \in Passwords : LoginOk("tab1", "alice", p)
    \/ StartNewSession("tab1")
    \/ ProcessFile("tab1", [name |-> "talk.mp3", type |-> "audio"], DefaultLanguage)
    \/ Normalize("tab1", "ok")
    \/ \E t \in Texts : Transcribe("tab1", "ok", t)
    \/ \E t \in Summaries : Summarize("tab1", "ok", t)
    \/ WriteResult("tab1")
    \/ \E t \in NotesTexts : WriteNotes("tab1", t)
    \/ \E a \in Addresses, ok \in BOOLEAN : SendEmail("tab1", a, ok)
    \/ \E a \in Addresses, ok \in BOOLEAN : SendNotesEmail("tab1", a, ok)

SpecEmail == Init /\ [][NextEmail]_vars

\* One client: the session list, the pipeline and the Translate tab.
NextTranslate ==
    \/ \E p \in Passwords : LoginOk("tab1", "alice", p)
    \/ StartNewSession("tab1")
    \/ \E n \in SessionNames : SelectSession("tab1", n)
    \/ \E n \in SessionNames : RenameClick("tab1", n)
    \/ \E n \in SessionNames : DeleteSession("tab1", n)
    \/ \E new \in NewNames : SaveName("tab1", new)
    \/ \E f \in Files : ProcessFile("tab1", f, DefaultLanguage)
    \/ \E o \in NormalizeOutcomes : Normalize("tab1", o)
    \/ \E o \in TranscribeOutcomes, t \in Texts : Transcribe("tab1", o, t)
    \/ \E o \in SummarizeOutcomes, t \in Summaries : Summarize("tab1", o, t)
    \/ WriteResult("tab1")
    \/ \E l \in Keys(languages), o \in TranslateOutcomes : TranslateClick("tab1", l, o)

SpecTranslate == Init /\ [][NextTranslate]_vars

\* One client: the pipeline in every language of the selectbox.
NextLanguage ==
    \/ \E p \in Passwords : LoginOk("tab1", "alice", p)
    \/ StartNewSession("tab1")
    \/ \E f \in Files, l \in Keys(languages) : ProcessFile("tab1", f, l)
    \/ \E o \in NormalizeOutcomes : Normalize("tab1", o)
    \/ \E o \in TranscribeOutcomes, t \in Texts : Transcribe("tab1", o, t)
    \/ \E o \in SummarizeOutcomes, t \in Summaries : Summarize("tab1", o, t)
    \/ WriteResult("tab1")

SpecLanguage == Init /\ [][NextLanguage]_vars

\* A single client: every handler of the account, the session list and the
\* pipeline, for every user.
NextSingle ==
    \/ Logout("tab1")
    \/ StartNewSession("tab1")
    \/ \E u \in UserIds, p \in Passwords : LoginOk("tab1", u, p)
    \/ \E u \in UserIds, p \in Passwords : LoginFail("tab1", u, p)
    \/ \E n \in SessionNames : SelectSession("tab1", n)
    \/ \E n \in SessionNames : RenameClick("tab1", n)
    \/ \E n \in SessionNames : DeleteSession("tab1", n)
    \/ \E new \in NewNames : SaveName("tab1", new)
    \/ SaveName("tab1", rename_mode["tab1"])
    \/ \E f \in Files : ProcessFile("tab1", f, DefaultLanguage)
    \/ \E o \in NormalizeOutcomes : Normalize("tab1", o)
    \/ \E o \in TranscribeOutcomes, t \in Texts : Transcribe("tab1", o, t)
    \/ \E o \in SummarizeOutcomes, t \in Summaries : Summarize("tab1", o, t)
    \/ WriteResult("tab1")
    \/ Abandon("tab1")

SpecSingle == Init /\ [][NextSingle]_vars

\* The account forms, starting from an empty users collection.
InitAccounts ==
    /\ users = <<>>
    /\ last_password = [u \in UserIds |-> None]
    /\ sessions = <<>>
    /\ next_id = 1
    /\ user_id = [c \in Clients |-> None]
    /\ selected_session = [c \in Clients |-> None]
    /\ rename_mode = [c \in Clients |-> None]
    /\ file_uploader_key = [c \in Clients |-> 0]
    /\ notes = [c \in Clients |-> Absent]
    /\ pc = [c \in Clients |-> "idle"]
    /\ run = [c \in Clients |-> NoRun]
    /\ tmpfiles = [c \in Clients |-> {}]
    /\ orphans = 0
    /\ pending = [c \in Clients |-> NoPending]
    /\ smtp = NoMail
    /\ message = [c \in Clients |-> ""]
    /\ translated = [c \in Clients |-> NoTranslation]

NextAccounts ==
    \E c \in Clients :
        \/ \E u \in UserIds, p, confirm \in Passwords : CreateAccountLookup(c, u, p, confirm)
        \/ CreateAccountInsert(c)
        \/ \E u \in UserIds, p, confirm \in Passwords : ResetPassword(c, u, p, confirm)
        \/ \E u \in UserIds, p \in Passwords : LoginOk(c, u, p)
        \/ \E u \in UserIds, p \in Passwords : LoginFail(c, u, p)
        \/ Logout(c)

SpecAccounts == InitAccounts /\ [][NextAccounts]_vars

----------------------------------------------------------------------------
\* Properties of the session list and the pipeline (Spec).

\* the step is the result write of client c
WriteStep(c) == WriteResult(c)

HasId(coll, id) == \E i \in DOMAIN coll : coll[i]._id = id

\* the run of client c was started on a stored record that is gone by now
DeletedInFlight(c) == run[c].target # 0 /\ ~HasId(sessions, run[c].target)

\* C1: when the session a run was started on has been deleted while the run
\* was in flight, the run's result write changes no session record, and no
\* record with the run's (userId, sessionName) exists after it.
C1_LateWriteIsNoOp ==
    [][\A c \in Clients :
          WriteStep(c) /\ DeletedInFlight(c)
          => /\ sessions' = sessions
             /\ FirstMatch(sessions', user_id[c], run[c].session_name) = 0]_vars

\* C2: once a record has a transcription, no step changes its transcription,
\* summary or filename: the result write reaches a record at most once.
C2_ResultWrittenOnce ==
    [][\A i \in DOMAIN sessions : \A j \in DOMAIN sessions' :
          HasTranscription(sessions[i]) /\ sessions'[j]._id = sessions[i]._id
          => /\ sessions'[j].transcription = sessions[i].transcription
             /\ sessions'[j].summary = sessions[i].summary
             /\ sessions'[j].filename = sessions[i].filename]_vars

\* C3: no two session records of one user have the same session name.
C3_NamesUniquePerUser ==
    \A i, j \in DOMAIN sessions :
        i # j /\ sessions[i].user_id = sessions[j].user_id
        => sessions[i].session_name # sessions[j].session_name

IsEmptyDoc(d) == d.transcription = Absent /\ d.summary = Absent /\ d.filename = Absent

\* C4: right after Start New Session the client's selected session resolves to
\* a record of the current user that did not exist before and has no filename,
\* transcription or summary.
C4_NewSessionIsEmpty ==
    [][\A c \in Clients :
          StartNewSession(c)
          => LET d == SessionData(sessions', user_id'[c], selected_session'[c])
             IN  /\ d._id # 0
                 /\ ~HasId(sessions, d._id)
                 /\ d.user_id = user_id[c]
                 /\ IsEmptyDoc(d)]_vars

\* a client has just started a session whose name an older, populated record
\* of the same user also carries
C4_Witness ==
    \E c \in Clients :
        /\ LoggedIn(c) /\ Truthy(selected_session[c])
        /\ session_data(sessions, c)._id = next_id - 1
        /\ IsEmptyDoc(session_data(sessions, c))
        /\ \E i \in DOMAIN sessions :
              /\ Matches(sessions[i], user_id[c], selected_session[c])
              /\ HasTranscription(sessions[i])

\* C5: the stages run in order and a failed stage ends the run: a run is at
\* transcription only with a normalized WAV, at summarization or at the write
\* only with a transcript, and the step on which normalization or
\* transcription fails changes no session record.
C5_StagesInOrder ==
    \A c \in Clients :
        /\ pc[c] \in {"transcribe", "summarize", "write"} => run[c].wav_file_path = WavPath
        /\ pc[c] \in {"summarize", "write"} => run[c].transcribed_text \in Texts
        /\ pc[c] = "write" => run[c].summ # "none"
        /\ pc[c] \in {"normalize", "transcribe", "summarize"} => run[c].summ = "none"

C5_FailureStep(c) ==
    \/ \E o \in NormalizeOutcomes \ {"ok"} : Normalize(c, o)
    \/ \E o \in TranscribeOutcomes \ {"ok"}, t \in Texts : Transcribe(c, o, t)

C5_PipelineShortCircuits ==
    /\ []C5_StagesInOrder
    /\ [][\A c \in Clients :
            C5_FailureStep(c) => pc'[c] = "idle" /\ run'[c] = NoRun /\ sessions' = sessions]_vars

\* a run has just failed at transcription and its session is still empty
C5_Witness ==
    \E c \in Clients :
        /\ message[c] = "Could not understand the audio."
        /\ pc[c] = "idle" /\ run[c] = NoRun /\ UploaderShown(c)
        /\ session_data(sessions, c)._id # 0

\* C6: every session record has none or all three of transcription, summary
\* and filename.
C6_CompleteTriple ==
    \A i \in DOMAIN sessions :
        \/ IsEmptyDoc(sessions[i])
        \/ /\ sessions[i].transcription # Absent
           /\ sessions[i].summary # Absent
           /\ sessions[i].filename # Absent

C6_Witness ==
    /\ \E i \in DOMAIN sessions : HasTranscription(sessions[i])
    /\ \E i \in DOMAIN sessions : IsEmptyDoc(sessions[i])

\* C7: when summarization fails the run still goes on to the write, and after
\* the write a record of the run's user and session name holds the run's
\* transcript, its filename and the placeholder summary.
C7_PlaceholderIsPersisted ==
    [][\A c \in Clients :
          /\ (\E t \in Summaries : Summarize(c, "error", t))
             => pc'[c] = "write" /\ run'[c].summary = Placeholder
          /\ WriteStep(c) /\ run[c].summ = "error"
             => \E j \in DOMAIN sessions' :
                   /\ Matches(sessions'[j], user_id[c], run[c].session_name)
                   /\ sessions'[j].transcription = run[c].transcribed_text
                   /\ sessions'[j].transcription \in Texts
                   /\ sessions'[j].filename = run[c].filename
                   /\ sessions'[j].summary = "Summary unavailable"]_vars

C7_Witness ==
    \E i \in DOMAIN sessions :
        /\ sessions[i].summary = Placeholder
        /\ sessions[i].transcription \in Texts
        /\ \E f \in Files : sessions[i].filename = f.name

----------------------------------------------------------------------------
\* Properties of the mail gateway (SpecEmail).

\* C8: every message handed to the mail transport, with the summary or with
\* the notes, has a recipient address that passes the address pattern.
C8_NoMalformedRecipient ==
    smtp # NoMail => EmailPattern(smtp.to)

----------------------------------------------------------------------------
\* Properties of the account store (SpecAccounts).

\* C9: at most one account document exists per user id.
C9_OneAccountPerUserId ==
    \A i, j \in DOMAIN users : users[i].user_id = users[j].user_id => i = j

\* the password most recently stored for u is p
StoredLast(u, p) == find_one_user(users, u) # 0 /\ last_password[u] = p

\* C10: a login succeeds exactly when the account exists and the password is
\* the one stored last for it, and a failed login changes neither the
\* client's user id and selected session nor the two collections.
C10_LoginStep ==
    \A c \in Clients, u \in UserIds, p \in Passwords :
        /\ LoginOk(c, u, p) => StoredLast(u, p) /\ user_id'[c] = u
        /\ LoginFail(c, u, p)
           => /\ ~StoredLast(u, p)
              /\ UNCHANGED <<users, sessions, user_id, selected_session>>

C10_LoginMatchesLastStoredPassword == [][C10_LoginStep]_vars

----------------------------------------------------------------------------
\* Ownership of session records (Spec).

\* the step is a handler of client c of the session list or the pipeline
SessionHandlerStep(c) ==
    \/ StartNewSession(c)
    \/ \E n \in SessionNames : SelectSession(c, n) \/ RenameClick(c, n) \/ DeleteSession(c, n)
    \/ \E new \in NewNames \cup {rename_mode[c]} : SaveName(c, new)
    \/ \E f \in Files : ProcessFile(c, f, DefaultLanguage)
    \/ WriteResult(c)

\* the records that do not belong to u, in collection order
RecordsOfOthers(coll, u) == SelectSeq(coll, LAMBDA d : d.user_id # u)

\* C11: a handler that a client runs while logged in as u leaves the records
\* of every other user as they are, and the session list and the selected
\* session of a logged-in client hold only records of the client's user.
C11_OnlyOwnRecordsInList ==
    \A c \in Clients :
        LoggedIn(c)
        => /\ \A n \in DOMAIN Reloaded(c) : Reloaded(c)[n].user_id = user_id[c]
           /\ session_data(sessions, c).user_id \in {user_id[c], Absent}

C11_ExclusiveOwnership ==
    /\ []C11_OnlyOwnRecordsInList
    /\ [][\A c \in Clients :
            SessionHandlerStep(c)
            => RecordsOfOthers(sessions', user_id[c]) = RecordsOfOthers(sessions, user_id[c])]_vars

\* bob's empty "Session 1" precedes alice's "Session 1", which alice has
\* populated
C11_Witness ==
    \E i, j \in DOMAIN sessions :
        /\ i < j
        /\ sessions[i].user_id = "bob" /\ sessions[j].user_id = "alice"
        /\ sessions[i].session_name = sessions[j].session_name
        /\ IsEmptyDoc(sessions[i])
        /\ HasTranscription(sessions[j])

----------------------------------------------------------------------------
\* Deleted sessions (Spec).

\* client d deletes the last record named n of its user while client c, logged
\* in as the same user, has n selected
DeletedUnder(c, d, n) ==
    /\ c # d
    /\ DeleteSession(d, n)
    /\ user_id[c] = user_id[d] /\ selected_session[c] = n
    /\ FirstMatch(sessions', user_id[d], n) = 0

\* C12: once a session has been deleted, the page of a client that still has
\* it selected does not treat the name as an Empty session: it does not offer
\* the uploader for it.
C12_DeletedIsNotEmpty ==
    [][\A c, d \in Clients : \A n \in SessionNames :
          DeletedUnder(c, d, n) => ~UploaderShown(c)']_vars

----------------------------------------------------------------------------
\* Properties of the Translate tab (SpecTranslate).

\* C13: a Translate click whose engine call raises shows exactly the summary
\* it was given, a click whose engine call succeeds shows the engine's text,
\* and neither changes a session record.
C13_TranslateFallsBack ==
    [][\A c \in Clients : \A l \in Keys(languages) :
          /\ TranslateClick(c, l, "error")
             => /\ translated'[c].text = session_data(sessions, c).summary
                /\ translated'[c].text \in Summaries \cup {Placeholder}
                /\ sessions' = sessions
          /\ TranslateClick(c, l, "ok") => sessions' = sessions]_vars

\* the Translate tab shows the untranslated summary after an engine error
C13_Witness ==
    \E c \in Clients :
        /\ message[c] = "Translation error"
        /\ translated[c].lang = "Spanish"
        /\ translated[c].text = session_data(sessions, c).summary
        /\ translated[c].text \in Summaries

----------------------------------------------------------------------------
\* Frame of rename and delete (Spec).

\* the collection without the record of this _id
WithoutId(coll, id) == SelectSeq(coll, LAMBDA d : d._id # id)

\* the collection with the record of this _id renamed and nothing else changed
RenamedId(coll, id, new) ==
    [i \in DOMAIN coll |->
        IF coll[i]._id = id THEN [coll[i] EXCEPT !.session_name = new] ELSE coll[i]]

\* the record behind the row named n of client c's session list
Targeted(c, n) == Reloaded(c)[n]

C14_FrameStep ==
    \A c \in Clients :
        /\ \A n \in SessionNames :
              DeleteSession(c, n) => sessions' = WithoutId(sessions, Targeted(c, n)._id)
        /\ \A new \in NewNames \cup {rename_mode[c]} :
              SaveName(c, new) /\ rename_mode[c] \in DOMAIN Reloaded(c)
              => sessions' = RenamedId(sessions, Targeted(c, rename_mode[c])._id, new)

\* C14: delete removes exactly the record behind the row it was clicked on,
\* rename changes exactly the session_name of the record behind the row it was
\* started on, and both leave every other record as it is.
C14_RenameDeleteFrame == [][C14_FrameStep]_vars

----------------------------------------------------------------------------
\* Properties of the language table (SpecLanguage).

NLanguages == 10

\* the codes of the table
Codes == {languages[i].value : i \in DOMAIN languages}

\* C15: the table pairs 10 names with 10 codes, the reverse lookup of a name's
\* code is the name, the code of a code's reverse lookup is the code, and the
\* language a run asks its summary in is the language selected for the run.
C15_LanguagesBijective ==
    /\ Cardinality(Keys(languages)) = NLanguages
    /\ Cardinality(Codes) = NLanguages
    /\ \A n \in Keys(languages) : lang_name(Lookup(languages, n)) = n
    /\ \A code \in Codes : Lookup(languages, lang_name(code)) = code
    /\ \A c \in Clients :
          pc[c] = "write"
          => /\ run[c].lang_name = run[c].selected_language
             /\ Lookup(languages, run[c].lang_name) = run[c].language_code

\* a run started in Portuguese has asked for its summary
C15_Witness ==
    \E c \in Clients :
        /\ pc[c] = "write"
        /\ run[c].selected_language = "Portuguese"
        /\ run[c].language_code = <<"pt">>
        /\ run[c].lang_name = "Portuguese"

----------------------------------------------------------------------------
\* The uploader generation (Spec).

\* the step is one of client c's handlers that change what the client works on
StateChangingStep(c) ==
    \/ \E u \in UserIds, p \in Passwords : LoginOk(c, u, p)
    \/ Logout(c)
    \/ StartNewSession(c)
    \/ \E n \in SessionNames : SelectSession(c, n) /\ selected_session[c] # n
    \/ \E n \in SessionNames : DeleteSession(c, n)
    \/ \E new \in NewNames \cup {rename_mode[c]} : SaveName(c, new)
    \/ WriteResult(c)

\* C16: file_uploader_key never decreases, and it grows in every login,
\* logout, Start New Session, switch to another session, rename, delete and
\* result write of the client.
C16_KeyGrows ==
    [][\A c \in Clients :
          /\ file_uploader_key'[c] >= file_uploader_key[c]
          /\ StateChangingStep(c) => file_uploader_key'[c] > file_uploader_key[c]]_vars

----------------------------------------------------------------------------
\* Scratch files (Spec).

\* C17: no scratch file of a run that has ended exists: runs that ended have
\* left none behind, and a client without a run in flight has none.
C17_NoScratchFileLeft ==
    /\ orphans = 0
    /\ \A c \in Clients : pc[c] = "idle" => tmpfiles[c] = {}

----------------------------------------------------------------------------
\* Renaming under a run in flight (Spec).

\* the record of this _id, when the collection has it
RecordOfId(coll, id) == coll[CHOOSE i \in DOMAIN coll : coll[i]._id = id]

\* C18: the result write of a run whose record still exists puts the run's
\* transcript, summary and filename into that record, whatever its name is
\* by then, and adds no record to the collection.
C18_ResultFollowsRename ==
    [][\A c \in Clients :
          WriteStep(c) /\ HasId(sessions, run[c].target)
          => /\ Len(sessions') = Len(sessions)
             /\ HasId(sessions', run[c].target)
             /\ RecordOfId(sessions', run[c].target).transcription = run[c].transcribed_text
             /\ RecordOfId(sessions', run[c].target).summary = run[c].summary
             /\ RecordOfId(sessions', run[c].target).filename = run[c].filename]_vars

----------------------------------------------------------------------------
\* The selected session of a single client (SpecSingle).

\* the selection is unset, or names a record of the client's user
SelectionValid(c) ==
    /\ ~LoggedIn(c) => selected_session[c] = None
    /\ selected_session[c] # None
       => FirstMatch(sessions, user_id[c], selected_session[c]) # 0

C19_SelectionStep(c) ==
    /\ \A n \in SessionNames :
          DeleteSession(c, n) /\ selected_session[c] = n => selected_session'[c] = None
    /\ \A new \in NewNames \cup {rename_mode[c]} :
          SaveName(c, new) /\ selected_session[c] = rename_mode[c]
          => selected_session'[c] = new
    /\ (\E u \in UserIds, p \in Passwords : LoginOk(c, u, p)) => selected_session'[c] = None
    /\ Logout(c) => selected_session'[c] = None

\* C19: with a single client, the selected session is always unset or the
\* name of a record of the current user, and unset when no user is logged in;
\* deleting the selected session unsets it, renaming it moves the selection to
\* the new name, and login and logout unset it.
C19_SelectionNamesARecord ==
    /\ []SelectionValid("tab1")
    /\ [][C19_SelectionStep("tab1")]_vars

\* the only record was created as "Session 1" and renamed while selected
C19_Witness ==
    /\ LoggedIn("tab1")
    /\ selected_session["tab1"] = "Session 2"
    /\ Len(sessions) = 1
    /\ sessions[1]._id = 1
    /\ sessions[1].session_name = "Session 2"
    /\ rename_mode["tab1"] = None

----------------------------------------------------------------------------
\* What Logout leaves behind (SpecSingle).

\* C20: Logout leaves the client with the selected session, the rename target
\* and the notes of a client that has just been opened, so that the next
\* login starts from them.
C20_LogoutClearsClient ==
    [][\A c \in Clients :
          Logout(c)
          => /\ selected_session'[c] = None
             /\ rename_mode'[c] = None
             /\ notes'[c] \in {Absent, ""}]_vars

====
